---------------------------- MODULE Spec2Model ----------------------------
(***************************************************************************)
(* A state-machine model of the geocoin map game (cmpm-121-demo-3).        *)
(*                                                                         *)
(* The repository holds several revisions of the same single-file program. *)
(* The variable rev says which revision a behaviour runs; every handler is *)
(* one atomic action (the browser runs each callback to completion).       *)
(*                                                                         *)
(* Numbers.  Latitudes and longitudes are fixed-point integers in units of *)
(* 1e-6 degree.  A luck value is an integer in thousandths (0..999 stands  *)
(* for [0,1)).  JavaScript arrays are heap objects: a cache, a memento and *)
(* a saved state each hold a reference into heap, so that sharing one      *)
(* array between two holders can be told from holding two equal copies.    *)
(***************************************************************************)
EXTENDS Integers, Sequences, FiniteSets, TLC

VARIABLES
    rev,                \* which revision of the program is running
    seed,               \* which luck function the build links (luck.ts)
    playerCoins,        \* playerCoins / GameState._playerCoins
    playerPosition,     \* playerPosition / GameState._playerPosition
    playerMarker,       \* the LatLng of the leaflet marker playerMarker
    mapCenter,          \* the centre of the leaflet map view (map.setView)
    movementHistory,    \* the LatLngs of the polyline movementHistory
    geoWatch,           \* TRUE once navigator.geolocation.watchPosition ran
    caches,             \* the cache objects, in spawn order (static fields)
    cacheCoins,         \* cache.coins of each cache: an array reference,
                        \*   or the coin count itself in part_002
    heap,               \* the coin arrays: reference -> sequence of coins
    cacheMementos,      \* Map cacheMementos: cell key -> array reference
    currentCacheState,  \* Map currentCacheState: cell key -> array reference
    onMap,              \* the caches whose rectangle layer is on the map
    alert               \* the message the last handler showed (<<>> if none)

vars == <<rev, seed, playerCoins, playerPosition, playerMarker, mapCenter,
          movementHistory, geoWatch, caches, cacheCoins, heap, cacheMementos,
          currentCacheState, onMap, alert>>

-----------------------------------------------------------------------------
(* Bounds of the model *)

\* luck functions considered: seeds 0..MaxSeed
MaxSeed == 1
\* the modelled luck functions give every cache at most MaxInitCoins coins
MaxInitCoins == 2
\* the player is kept within MaxMove tiles (Manhattan) of the classroom
MaxMove == 1
\* the polyline is kept to at most MaxHistory points
MaxHistory == 1
\* position fixes delivered by the geolocation watch: Fix(1)..Fix(MaxFix)
MaxFix == 1
\* the largest amount typed into a deposit field
MaxDeposit == 3
\* coordinates given to latLngToGridCoords: up to MaxGrid cells either side of 0
MaxGrid == 2

-----------------------------------------------------------------------------
(* Program constants *)

OAKES_CLASSROOM == [lat |-> 36989494, lng |-> -122062771]
TILE_DEGREES == 100
NEIGHBORHOOD_SIZE == 8
CACHE_SPAWN_PROBABILITY == 100
PLAYER_RADIUS == 300
tiltThreshold == 10

Revisions == {"part_002", "part_003", "main", "part_000", "part_006", "part_005"}

\* cache.coins is a Coin[] (every revision but part_002, where it is a number)
HasCoinList(r) == r # "part_002"
\* saveCacheState exists and is called by spawn, collect and deposit
HasSavedState(r) == r \in {"main", "part_000", "part_006", "part_005"}
\* saveCacheState writes currentCacheState; cacheMementos is a separate map
HasCurrentState(r) == r \in {"part_006", "part_005"}
\* movePlayer, updateCacheLayers and the arrow buttons exist
HasMovement(r) == r \in {"part_003", "main", "part_000", "part_006", "part_005"}
\* the geolocation button exists
HasGeolocation(r) == r \in {"main", "part_000", "part_006", "part_005"}
\* the movementHistory polyline and the reset button exist
HasReset(r) == r \in {"part_000", "part_006", "part_005"}
\* enableSensorMovement exists
HasSensor(r) == r \in {"part_006", "part_005"}

Abs(x) == IF x < 0 THEN -x ELSE x

-----------------------------------------------------------------------------
(* luck.ts: a pure function from a string key to [0,1).  The file is not   *)
(* among the sources; it is modelled as a family of keyed hashes, one per  *)
(* seed, whose value is an integer number of thousandths.  A key is the    *)
(* tuple that the program joins with commas.                               *)

luck(s, key) ==
    IF Len(key) = 2
    THEN LET a == key[1]
             b == key[2]
             h == ((a - s) * (a - s) + (b + s) * (b + s))
                    * ((a - s - 2) * (a - s - 2) + (b + s - 2) * (b + s - 2))
         IN  IF h * 100 > 999 THEN 999 ELSE h * 100
    ELSE (((key[1] \div 2) + key[2] + s) % MaxInitCoins) * 10

-----------------------------------------------------------------------------
(* Pure helpers *)

\* Math.trunc(x * 10000) for a coordinate of x units: rounding toward zero
Trunc(x) == IF x >= 0 THEN x \div 100 ELSE -((-x) \div 100)

\* a conversion that rounds toward zero: Math.trunc(lat * 10000)
latLngToGridCoords_trunc(lat, lng) == [i |-> Trunc(lat), j |-> Trunc(lng)]

\* a conversion with cells ten times as wide: Math.floor(lat * 1000)
latLngToGridCoords_coarse(lat, lng) == [i |-> lat \div 1000, j |-> lng \div 1000]

\* Math.floor(lat * 10000), Math.floor(lng * 10000): one cell is 100 units
latLngToGridCoords(lat, lng) == [i |-> lat \div 100, j |-> lng \div 100]

\* `${coin.i}:${coin.j}#${coin.serial}`
formatCoinID(coin) == <<coin.i, ":", coin.j, "#", coin.serial>>

\* a count that rounds up instead: Math.ceil(l * 100)
coinCount_ceil(l) == ((l * 100) + 999) \div 1000

\* Math.floor(l * 100) + 1 for a luck value l given in thousandths
coinCount(l) == ((l * 100) \div 1000) + 1

\* Math.floor(luck([i, j, "initialValue"].toString()) * 100) + 1
numCoins(s, i, j) == coinCount(luck(s, <<i, j, "initialValue">>))

\* Array.from({ length: n }, (_, serial) => ({ i, j, serial }))
ArrayFrom(n, i, j) == [k \in 1..n |-> [i |-> i, j |-> j, serial |-> k - 1]]

\* parseInt(text, 10) on a string given as its sequence of characters:
\* leading blanks are skipped, one sign is read, then the decimal digits up
\* to the first other character; no digit at all gives NaN.
Digits == <<"0", "1", "2", "3", "4", "5", "6", "7", "8", "9">>
IsDigit(ch) == \E d \in 1..10 : Digits[d] = ch
DigitVal(ch) == (CHOOSE d \in 1..10 : Digits[d] = ch) - 1

RECURSIVE SkipBlanks(_)
SkipBlanks(t) ==
    IF t # <<>> /\ Head(t) = " " THEN SkipBlanks(Tail(t)) ELSE t

RECURSIVE ReadDigits(_, _)
ReadDigits(t, acc) ==
    IF t # <<>> /\ IsDigit(Head(t))
    THEN ReadDigits(Tail(t), acc * 10 + DigitVal(Head(t)))
    ELSE acc

\* a parseInt that loses the sign: Math.abs(parseInt(text, 10))
parseInt_abs(text) ==
    LET t0 == SkipBlanks(text)
        t1 == IF t0 # <<>> /\ Head(t0) \in {"-", "+"} THEN Tail(t0) ELSE t0
    IN  IF t1 = <<>> \/ ~IsDigit(Head(t1))
        THEN [nan |-> TRUE, val |-> 0]
        ELSE [nan |-> FALSE, val |-> ReadDigits(t1, 0)]

parseInt(text) ==
    LET t0 == SkipBlanks(text)
        neg == t0 # <<>> /\ Head(t0) = "-"
        t1 == IF t0 # <<>> /\ Head(t0) \in {"-", "+"} THEN Tail(t0) ELSE t0
    IN  IF t1 = <<>> \/ ~IsDigit(Head(t1))
        THEN [nan |-> TRUE, val |-> 0]
        ELSE [nan |-> FALSE,
              val |-> IF neg THEN -ReadDigits(t1, 0) ELSE ReadDigits(t1, 0)]

isNaN(x) == x.nan

\* leaflet LatLng.distanceTo, in centimetres squared: an equirectangular
\* approximation at the classroom's latitude (one unit of latitude is
\* 11.12 cm, one unit of longitude 8.88 cm)
distanceSq(p, q) ==
    LET dy == (Abs(p.lat - q.lat) * 1112) \div 100
        dx == (Abs(p.lng - q.lng) * 888) \div 100
    IN  dy * dy + dx * dx

\* cache.bounds.getCenter() of [[lat, lng], [lat + TILE, lng + TILE]]
getCenter(cache) ==
    [lat |-> cache.lat + (TILE_DEGREES \div 2),
     lng |-> cache.lng + (TILE_DEGREES \div 2)]

\* distance <= PLAYER_RADIUS * 111000 (metres, here centimetres)
InRange(pos, cache) ==
    LET limit == (PLAYER_RADIUS * 111000) \div 10000
    IN  distanceSq(pos, getCenter(cache)) <= limit * limit

-----------------------------------------------------------------------------
(* The heap of coin arrays.  A store g is a record                         *)
(*   [heap, coins, mem, cur]                                               *)
(* of the arrays, cache.coins of every cache, cacheMementos and            *)
(* currentCacheState.                                                      *)

Put(f, k, v) == [x \in DOMAIN f \cup {k} |-> IF x = k THEN v ELSE f[x]]

\* a fresh array reference
Alloc(h) ==
    CHOOSE r \in 1..(Cardinality(DOMAIN h) + 1) :
        r \notin DOMAIN h /\ \A q \in 1..(r - 1) : q \in DOMAIN h

\* [...coins]: a new array holding the elements of the array at ref
CopyArray(g, ref) == Put(g.heap, Alloc(g.heap), g.heap[ref])

key(i, j) == <<i, j>>

\* the reference held at position p of the holders of a store: cache.coins
\* of the n caches, then their cacheMementos entries, then their
\* currentCacheState entries (0: no entry)
Holder(cs, g, p) ==
    LET n == Len(cs)
    IN  IF p <= n THEN g.coins[p]
        ELSE IF p <= 2 * n
        THEN LET k == key(cs[p - n].i, cs[p - n].j)
             IN  IF k \in DOMAIN g.mem THEN g.mem[k] ELSE 0
        ELSE LET k == key(cs[p - 2 * n].i, cs[p - 2 * n].j)
             IN  IF k \in DOMAIN g.cur THEN g.cur[k] ELSE 0

\* Garbage collection: arrays that no holder references are dropped and the
\* others are renamed after their first holder.  Sharing is kept as it is.
Collected(cs, g) ==
    LET P == 1..(3 * Len(cs))
        name(r) == CHOOSE p \in P :
                      Holder(cs, g, p) = r /\ \A q \in 1..(p - 1) : Holder(cs, g, q) # r
        live == {Holder(cs, g, p) : p \in P} \ {0}
        back(x) == CHOOSE r \in live : name(r) = x
    IN  [g EXCEPT !.heap = [x \in {name(r) : r \in live} |-> g.heap[back(x)]],
                  !.coins = [c \in DOMAIN g.coins |-> name(g.coins[c])],
                  !.mem = [k \in DOMAIN g.mem |-> name(g.mem[k])],
                  !.cur = [k \in DOMAIN g.cur |-> name(g.cur[k])]]

-----------------------------------------------------------------------------
(* Saved cache state *)

\* part_000, main.ts: cacheMementos.set(key, new CacheMemento(i, j, [...coins]))
saveCacheState_000(g, i, j, coins) ==
    LET a == Alloc(g.heap)
    IN  [g EXCEPT !.heap = CopyArray(g, coins), !.mem = Put(g.mem, key(i, j), a)]

\* part_005, part_006: currentCacheState.set(key, { i, j, coins: [...coins] })
saveCacheState_005(g, i, j, coins) ==
    LET a == Alloc(g.heap)
    IN  [g EXCEPT !.heap = CopyArray(g, coins), !.cur = Put(g.cur, key(i, j), a)]

\* a handler that forgets to save: the call to saveCacheState is missing
saveCacheState_missing(r, g, i, j, coins) == g

saveCacheState(r, g, i, j, coins) ==
    IF HasCurrentState(r) THEN saveCacheState_005(g, i, j, coins)
    ELSE IF HasSavedState(r) THEN saveCacheState_000(g, i, j, coins)
    ELSE g

-----------------------------------------------------------------------------
(* Spawning the caches.  A world w is a store with the fields caches (the  *)
(* cache objects spawned so far) and onMap.                                *)

\* a coin count that grows with the caches spawned before this one:
\* length: numCoins + caches.length
NewCoins_bySpawnOrder(s, w, i, j, saved) ==
    IF key(i, j) \in DOMAIN saved
    THEN [w EXCEPT !.coins = Append(w.coins, saved[key(i, j)])]
    ELSE [w EXCEPT !.heap = Put(w.heap, Alloc(w.heap),
                                ArrayFrom(numCoins(s, i, j) + Len(w.caches), i, j)),
                   !.coins = Append(w.coins, Alloc(w.heap))]

\* the array of a cache that has no memento yet is new; otherwise the
\* memento's own array is taken
NewCoins(s, w, i, j, saved) ==
    IF key(i, j) \in DOMAIN saved
    THEN [w EXCEPT !.coins = Append(w.coins, saved[key(i, j)])]
    ELSE [w EXCEPT !.heap = Put(w.heap, Alloc(w.heap), ArrayFrom(numCoins(s, i, j), i, j)),
                   !.coins = Append(w.coins, Alloc(w.heap))]

\* cache.layer.addTo(map); caches.push(cache)
PushCache(w, i, j, lat, lng) ==
    [w EXCEPT !.caches = Append(w.caches, [i |-> i, j |-> j, lat |-> lat, lng |-> lng]),
              !.onMap = w.onMap \cup {Len(w.caches) + 1}]

\* a spawnCache that stores the cache's own array in the memento:
\* cacheMementos.set(key, { i, j, coins })
spawnCache_005_shared(s, w, lat, lng) ==
    LET cell == latLngToGridCoords(lat, lng)
        i == cell.i
        j == cell.j
        w1 == NewCoins(s, w, i, j, w.mem)
        coins == w1.coins[Len(w1.coins)]
        w2 == IF key(i, j) \notin DOMAIN w.mem
              THEN [w1 EXCEPT !.mem = Put(w1.mem, key(i, j), coins)]
              ELSE w1
        w3 == saveCacheState_005(w2, i, j, coins)
    IN  PushCache(w3, i, j, lat, lng)

\* part_005, part_006
spawnCache_005(s, w, lat, lng) ==
    LET cell == latLngToGridCoords(lat, lng)
        i == cell.i
        j == cell.j
        w1 == NewCoins(s, w, i, j, w.mem)
        coins == w1.coins[Len(w1.coins)]
        w2 == IF key(i, j) \notin DOMAIN w.mem
              THEN [w1 EXCEPT !.heap = CopyArray(w1, coins),
                              !.mem = Put(w1.mem, key(i, j), Alloc(w1.heap))]
              ELSE w1
        w3 == saveCacheState_005(w2, i, j, coins)
    IN  PushCache(w3, i, j, lat, lng)

\* part_000, main.ts
spawnCache_000(s, w, lat, lng) ==
    LET cell == latLngToGridCoords(lat, lng)
        i == cell.i
        j == cell.j
        w1 == NewCoins(s, w, i, j, w.mem)
        coins == w1.coins[Len(w1.coins)]
        w2 == IF key(i, j) \notin DOMAIN w.mem
              THEN saveCacheState_000(w1, i, j, coins)
              ELSE w1
    IN  PushCache(w2, i, j, lat, lng)

\* part_003: the cell comes from latLngToGridCoords; nothing is saved
spawnCache_003(s, w, lat, lng) ==
    LET cell == latLngToGridCoords(lat, lng)
    IN  PushCache(NewCoins(s, w, cell.i, cell.j, <<>>), cell.i, cell.j, lat, lng)

\* part_002: the cache is named by the neighbourhood offsets and holds a count
spawnCache_002(s, w, i, j) ==
    PushCache([w EXCEPT !.coins = Append(w.coins, numCoins(s, i, j))], i, j,
              OAKES_CLASSROOM.lat + i * TILE_DEGREES,
              OAKES_CLASSROOM.lng + j * TILE_DEGREES)

spawnCache(r, s, w, i, j) ==
    LET lat == OAKES_CLASSROOM.lat + i * TILE_DEGREES
        lng == OAKES_CLASSROOM.lng + j * TILE_DEGREES
    IN  IF r = "part_002" THEN spawnCache_002(s, w, i, j)
        ELSE IF r = "part_003" THEN spawnCache_003(s, w, lat, lng)
        ELSE IF HasCurrentState(r) THEN spawnCache_005(s, w, lat, lng)
        ELSE spawnCache_000(s, w, lat, lng)

\* the key of the spawn decision at loop position (i, j): [i, j].toString()
spawnKey(i, j) == <<i, j>>

\* the cells of the neighbourhood that pass the luck test
LuckyCells(s) ==
    {c \in (-NEIGHBORHOOD_SIZE..NEIGHBORHOOD_SIZE) \X (-NEIGHBORHOOD_SIZE..NEIGHBORHOOD_SIZE) :
        luck(s, spawnKey(c[1], c[2])) < CACHE_SPAWN_PROBABILITY}

\* the place of cell c in the order of the double loop (i outer, j inner)
LoopIndex(c) ==
    (c[1] + NEIGHBORHOOD_SIZE) * (2 * NEIGHBORHOOD_SIZE + 1) + (c[2] + NEIGHBORHOOD_SIZE)

\* the double loop over the neighbourhood, restricted to the cells todo that
\* are still to be visited and pass the luck test
RECURSIVE SpawnAll(_, _, _, _)
SpawnAll(r, s, w, todo) ==
    IF todo = {} THEN w
    ELSE LET c == CHOOSE x \in todo : \A y \in todo : LoopIndex(x) <= LoopIndex(y)
         IN  SpawnAll(r, s, spawnCache(r, s, w, c[1], c[2]), todo \ {c})

generateCacheLocations(r, s, w) == SpawnAll(r, s, w, LuckyCells(s))

\* an update without its else branch: layers in range are added, none is
\* removed
updateCacheLayers_addOnly(pos, cs, om) ==
    om \cup {c \in DOMAIN cs : InRange(pos, cs[c])}

\* updateCacheLayers: a layer in range is added unless present, a layer out
\* of range is removed if present
updateCacheLayers(pos, cs, om) ==
    (om \cup {c \in DOMAIN cs : InRange(pos, cs[c])})
        \ {c \in DOMAIN cs : ~InRange(pos, cs[c])}

EmptyWorld ==
    [heap |-> <<>>, coins |-> <<>>, mem |-> <<>>, cur |-> <<>>,
     caches |-> <<>>, onMap |-> {}]

\* the module's top-level code, run once when the page loads
initializeGame(r, s) ==
    LET w == generateCacheLocations(r, s, EmptyWorld)
        v == IF HasMovement(r)
             THEN [w EXCEPT !.onMap = updateCacheLayers(OAKES_CLASSROOM, w.caches, w.onMap)]
             ELSE w
    IN  IF HasCoinList(r) THEN Collected(v.caches, v) ELSE v

Init ==
    /\ rev \in Revisions
    /\ seed \in 0..MaxSeed
    /\ playerCoins = 0
    /\ playerPosition = OAKES_CLASSROOM
    /\ LET w == initializeGame(rev, seed)
       IN  /\ caches = w.caches
           /\ cacheCoins = w.coins
           /\ heap = w.heap
           /\ cacheMementos = w.mem
           /\ currentCacheState = w.cur
           /\ onMap = w.onMap
    /\ playerMarker = OAKES_CLASSROOM
    /\ mapCenter = OAKES_CLASSROOM
    /\ movementHistory = <<>>
    /\ geoWatch = FALSE
    /\ alert = <<>>

-----------------------------------------------------------------------------
(* The player's coins *)

\* GameState.addCoins
addCoins(coins, amount) == coins + amount

\* a subtractCoins without its check
subtractCoins_unchecked(coins, amount) == [threw |-> FALSE, coins |-> coins - amount]

\* GameState.subtractCoins: the new balance, or a throw
subtractCoins(coins, amount) ==
    IF coins >= amount
    THEN [threw |-> FALSE, coins |-> coins - amount]
    ELSE [threw |-> TRUE, coins |-> coins]

\* a guard that asks for some coins, not for enough: if (playerCoins > 0)
canDeposit_anyCoins(coins, amount) == coins > 0

\* the inline form of the other revisions: if (playerCoins >= depositAmount)
canDeposit(coins, amount) == coins >= amount

-----------------------------------------------------------------------------
(* Handlers *)

Store ==
    [heap |-> heap, coins |-> cacheCoins, mem |-> cacheMementos,
     cur |-> currentCacheState]

\* the store a handler leaves behind
SetStore(g) ==
    LET n == IF HasCoinList(rev) THEN Collected(caches, g) ELSE g
    IN  /\ heap' = n.heap
        /\ cacheCoins' = n.coins
        /\ cacheMementos' = n.mem
        /\ currentCacheState' = n.cur

CoinsOf(c) == heap[cacheCoins[c]]

\* a guard on the array, which is always truthy: if (cache.coins)
hasCoins_array(coins) == TRUE

\* if (cache.coins.length)
hasCoins(coins) == Len(coins) # 0

\* the Collect button of cache c (coin lists)
collectClick(c) ==
    /\ HasCoinList(rev)
    /\ c \in onMap
    /\ IF hasCoins(CoinsOf(c))
       THEN LET empty == Alloc(heap)
                g1 == [Store EXCEPT !.heap = Put(heap, empty, <<>>),
                                    !.coins[c] = empty]
                g2 == saveCacheState(rev, g1, caches[c].i, caches[c].j, empty)
            IN  /\ playerCoins' = addCoins(playerCoins, Len(CoinsOf(c)))
                /\ SetStore(g2)
                /\ alert' = <<"Collected! You now have ", playerCoins', " coins.">>
       ELSE /\ alert' = <<"No coins left in this cache.">>
            /\ UNCHANGED <<playerCoins, heap, cacheCoins, cacheMementos,
                           currentCacheState>>
    /\ UNCHANGED <<rev, seed, playerPosition, playerMarker, mapCenter,
                   movementHistory, geoWatch, caches, onMap>>

\* a loop that runs once too often: serial <= depositAmount
PushCoins_oneTooMany(arr, i, j, n) ==
    arr \o [k \in 1..(n + 1) |-> [i |-> i, j |-> j, serial |-> Len(arr) + k - 1]]

\* a push that numbers the coin by the loop counter: serial: serial
PushCoins_loopSerial(arr, i, j, n) ==
    arr \o [k \in 1..n |-> [i |-> i, j |-> j, serial |-> k - 1]]

\* a deposit that puts the new coins in front: cache.coins.unshift(...)
PushCoins_unshift(arr, i, j, n) ==
    [k \in 1..n |-> [i |-> i, j |-> j, serial |-> Len(arr) + n - k]] \o arr

\* cache.coins.push({ i, j, serial: cache.coins.length }), n times
RECURSIVE PushCoins(_, _, _, _)
PushCoins(arr, i, j, n) ==
    IF n = 0 THEN arr
    ELSE PushCoins(Append(arr, [i |-> i, j |-> j, serial |-> Len(arr)]), i, j, n - 1)

\* the accepted part of a deposit: the loop of pushes, then saveCacheState
depositCoins(g, c, amount) ==
    LET ref == g.coins[c]
        g1 == [g EXCEPT !.heap[ref] = PushCoins(g.heap[ref], caches[c].i, caches[c].j, amount)]
    IN  saveCacheState(rev, g1, caches[c].i, caches[c].j, ref)

\* the Deposit button of cache c with text in the amount field (coin lists)
depositClick(c, text) ==
    /\ HasCoinList(rev)
    /\ c \in onMap
    /\ LET depositAmount == parseInt(text)
           sub == subtractCoins(playerCoins, depositAmount.val)
           accepted == IF rev = "part_005" THEN ~sub.threw
                       ELSE canDeposit(playerCoins, depositAmount.val)
       IN  IF isNaN(depositAmount) \/ depositAmount.val <= 0
           THEN /\ alert' = <<"Please enter a valid number of coins to deposit.">>
                /\ UNCHANGED <<playerCoins, heap, cacheCoins, cacheMementos,
                               currentCacheState>>
           ELSE IF accepted
           THEN /\ playerCoins' = IF rev = "part_005" THEN sub.coins
                                  ELSE playerCoins - depositAmount.val
                /\ SetStore(depositCoins(Store, c, depositAmount.val))
                /\ alert' = <<"Deposited ", depositAmount.val, " coins! You now have ",
                              playerCoins', " coins.">>
           ELSE /\ alert' = IF rev = "part_005" THEN <<"error">>
                            ELSE <<"You don't have enough coins to deposit that amount.">>
                /\ UNCHANGED <<playerCoins, heap, cacheCoins, cacheMementos,
                               currentCacheState>>
    /\ UNCHANGED <<rev, seed, playerPosition, playerMarker, mapCenter,
                   movementHistory, geoWatch, caches, onMap>>

\* part_002: the Collect button of cache c (coin counts)
collectClick_002(c) ==
    /\ rev = "part_002"
    /\ c \in onMap
    /\ IF cacheCoins[c] > 0
       THEN /\ playerCoins' = playerCoins + cacheCoins[c]
            /\ cacheCoins' = [cacheCoins EXCEPT ![c] = 0]
            /\ alert' = <<"Collected! You now have ", playerCoins', " coins.">>
       ELSE /\ alert' = <<"No coins left in this cache.">>
            /\ UNCHANGED <<playerCoins, cacheCoins>>
    /\ UNCHANGED <<rev, seed, playerPosition, playerMarker, mapCenter,
                   movementHistory, geoWatch, caches, heap, cacheMementos,
                   currentCacheState, onMap>>

\* part_002: the Deposit button of cache c (coin counts)
depositClick_002(c, text) ==
    /\ rev = "part_002"
    /\ c \in onMap
    /\ LET depositAmount == parseInt(text)
       IN  IF isNaN(depositAmount) \/ depositAmount.val <= 0
           THEN /\ alert' = <<"Please enter a valid number of coins to deposit.">>
                /\ UNCHANGED <<playerCoins, cacheCoins>>
           ELSE IF canDeposit(playerCoins, depositAmount.val)
           THEN /\ playerCoins' = playerCoins - depositAmount.val
                /\ cacheCoins' = [cacheCoins EXCEPT ![c] = @ + depositAmount.val]
                /\ alert' = <<"Deposited ", depositAmount.val, " coins! You now have ",
                              playerCoins', " coins.">>
           ELSE /\ alert' = <<"You don't have enough coins to deposit that amount.">>
                /\ UNCHANGED <<playerCoins, cacheCoins>>
    /\ UNCHANGED <<rev, seed, playerPosition, playerMarker, mapCenter,
                   movementHistory, geoWatch, caches, heap, cacheMementos,
                   currentCacheState, onMap>>

-----------------------------------------------------------------------------
(* Movement *)

\* the model keeps the player near the classroom
Near(pos) ==
    Abs(pos.lat - OAKES_CLASSROOM.lat) + Abs(pos.lng - OAKES_CLASSROOM.lng)
        <= MaxMove * TILE_DEGREES

\* movementHistory.addLatLng (absent from main.ts)
addLatLng(pos) == IF HasReset(rev) THEN Append(movementHistory, pos) ELSE movementHistory

HistoryHasRoom == HasReset(rev) => Len(movementHistory) < MaxHistory

\* what movePlayer and the position-watch callback share: marker, view,
\* polyline and layers follow the new position
MoveTo(pos) ==
    /\ playerPosition' = pos
    /\ playerMarker' = playerPosition'
    /\ mapCenter' = playerPosition'
    /\ movementHistory' = addLatLng(playerPosition')
    /\ onMap' = updateCacheLayers(playerPosition', caches, onMap)

\* leaflet.latLng(playerPosition.lat + dLat, playerPosition.lng + dLng)
newPosition(pos, dLat, dLng) == [lat |-> pos.lat + dLat, lng |-> pos.lng + dLng]

movePlayer(dLat, dLng) ==
    /\ HasMovement(rev)
    /\ HistoryHasRoom
    /\ Near(newPosition(playerPosition, dLat, dLng))
    /\ MoveTo(newPosition(playerPosition, dLat, dLng))
    /\ alert' = <<>>
    /\ UNCHANGED <<rev, seed, playerCoins, geoWatch, caches, cacheCoins, heap,
                   cacheMementos, currentCacheState>>

\* the arguments each arrow button passes to movePlayer
buttonUp == <<TILE_DEGREES, 0>>
\* a down button wired like the up button: () => movePlayer(TILE_DEGREES, 0)
buttonDown_likeUp == <<TILE_DEGREES, 0>>
buttonDown == <<-TILE_DEGREES, 0>>
buttonLeft == <<0, -TILE_DEGREES>>
buttonRight == <<0, TILE_DEGREES>>

\* the four arrow buttons
Arrows == {buttonUp, buttonDown, buttonLeft, buttonRight}

arrowClick(d) == movePlayer(d[1], d[2])

\* the geolocation button: navigator.geolocation.watchPosition(...)
enableGeolocation ==
    /\ HasGeolocation(rev)
    /\ geoWatch' = TRUE
    /\ alert' = <<>>
    /\ UNCHANGED <<rev, seed, playerCoins, playerPosition, playerMarker, mapCenter,
                   movementHistory, caches, cacheCoins, heap, cacheMementos,
                   currentCacheState, onMap>>

\* the positions the device reports
Fix(k) == [lat |-> OAKES_CLASSROOM.lat + 137 * k, lng |-> OAKES_CLASSROOM.lng - 61 * k]

\* the success callback of watchPosition
positionFix(k) ==
    /\ geoWatch
    /\ HistoryHasRoom
    /\ MoveTo(Fix(k))
    /\ alert' = <<>>
    /\ UNCHANGED <<rev, seed, playerCoins, geoWatch, caches, cacheCoins, heap,
                   cacheMementos, currentCacheState>>

\* the tilt angles an orientation event carries (0 also stands for null)
Tilts == {-20, 0, 5, 20}

Step(angle) ==
    IF angle > tiltThreshold THEN TILE_DEGREES
    ELSE IF angle < -tiltThreshold THEN -TILE_DEGREES
    ELSE 0

\* the deviceorientation listener of enableSensorMovement
deviceorientation(beta, gamma) ==
    /\ HasSensor(rev)
    /\ IF beta # 0 /\ gamma # 0 /\ (Step(beta) # 0 \/ Step(gamma) # 0)
       THEN movePlayer(Step(beta), Step(gamma))
       ELSE /\ alert' = <<>>
            /\ UNCHANGED <<rev, seed, playerCoins, playerPosition, playerMarker,
                           mapCenter, movementHistory, geoWatch, caches, cacheCoins,
                           heap, cacheMementos, currentCacheState, onMap>>

-----------------------------------------------------------------------------
(* Reset *)

\* what the prompt returns: typed text, or null when it is cancelled
Answers == {"yes", "Yes", "", "null"}

\* a test that ignores case: confirmation?.toLowerCase() === "yes"
isConfirmed_anyCase(confirmation) == confirmation \in {"yes", "Yes"}

\* confirmation === "yes"
isConfirmed(confirmation) == confirmation = "yes"

\* part_000: caches.forEach, from cache c on, restoring from getCacheState
RECURSIVE restore_000(_, _)
restore_000(g, c) ==
    IF c > Len(caches) THEN g
    ELSE LET k == key(caches[c].i, caches[c].j)
             a == Alloc(g.heap)
         IN  restore_000(
                 IF k \in DOMAIN g.mem
                 THEN [g EXCEPT !.heap = CopyArray(g, g.mem[k]), !.coins[c] = a]
                 ELSE g,
                 c + 1)

\* a restore that reads the saved current state, as part_000 does:
\* const originalState = getCacheState(cache.i, cache.j)
RECURSIVE restore_005_fromCurrent(_, _)
restore_005_fromCurrent(g, c) ==
    IF c > Len(caches) THEN g
    ELSE LET k == key(caches[c].i, caches[c].j)
             a == Alloc(g.heap)
             g1 == [g EXCEPT !.heap = CopyArray(g, g.cur[k]), !.coins[c] = a]
         IN  restore_005_fromCurrent(
                 IF k \in DOMAIN g.cur
                 THEN saveCacheState_005(g1, caches[c].i, caches[c].j, a)
                 ELSE g,
                 c + 1)

\* part_005, part_006: caches.forEach, from cache c on, restoring from
\* cacheMementos and saving the restored list as the current state
RECURSIVE restore_005(_, _)
restore_005(g, c) ==
    IF c > Len(caches) THEN g
    ELSE LET k == key(caches[c].i, caches[c].j)
             a == Alloc(g.heap)
             g1 == [g EXCEPT !.heap = CopyArray(g, g.mem[k]), !.coins[c] = a]
         IN  restore_005(
                 IF k \in DOMAIN g.mem
                 THEN saveCacheState_005(g1, caches[c].i, caches[c].j, a)
                 ELSE g,
                 c + 1)

\* part_000
resetGameState_000(confirmation) ==
    /\ rev = "part_000"
    /\ IF isConfirmed(confirmation)
       THEN /\ playerCoins' = 0
            /\ alert' = <<"Game state has been reset. All coins have been returned to their original caches.">>
            /\ SetStore(restore_000(Store, 1))
            /\ movementHistory' = <<>>
       ELSE /\ alert' = <<>>
            /\ UNCHANGED <<playerCoins, heap, cacheCoins, cacheMementos,
                           currentCacheState, movementHistory>>
    /\ UNCHANGED <<rev, seed, playerPosition, playerMarker, mapCenter, geoWatch,
                   caches, onMap>>

\* part_006
resetGameState_006(confirmation) ==
    /\ rev = "part_006"
    /\ IF isConfirmed(confirmation)
       THEN /\ playerCoins' = 0
            /\ alert' = <<"Game state has been reset.">>
            /\ SetStore(restore_005(Store, 1))
            /\ movementHistory' = <<>>
       ELSE /\ alert' = <<>>
            /\ UNCHANGED <<playerCoins, heap, cacheCoins, cacheMementos,
                           currentCacheState, movementHistory>>
    /\ UNCHANGED <<rev, seed, playerPosition, playerMarker, mapCenter, geoWatch,
                   caches, onMap>>

\* part_005: gameState.reset() also puts the position back to the classroom
resetGameState_005(confirmation) ==
    /\ rev = "part_005"
    /\ IF isConfirmed(confirmation)
       THEN /\ playerCoins' = 0
            /\ playerPosition' = OAKES_CLASSROOM
            /\ alert' = <<"Game state has been reset.">>
            /\ SetStore(restore_005(Store, 1))
            /\ movementHistory' = <<>>
       ELSE /\ alert' = <<>>
            /\ UNCHANGED <<playerCoins, playerPosition, heap, cacheCoins,
                           cacheMementos, currentCacheState, movementHistory>>
    /\ UNCHANGED <<rev, seed, playerMarker, mapCenter, geoWatch, caches, onMap>>

resetGameState(confirmation) ==
    \/ resetGameState_000(confirmation)
    \/ resetGameState_006(confirmation)
    \/ resetGameState_005(confirmation)

-----------------------------------------------------------------------------
(* The events the browser can deliver *)

\* what can stand in a deposit field: nothing, 0, -1 and 1..MaxDeposit
AmountText(n) == <<Digits[n + 1]>>
InvalidTexts == {<<>>, <<"0">>, <<"-", "1">>}
DepositTexts == InvalidTexts \cup {AmountText(n) : n \in 1..MaxDeposit}

Collect == \E c \in DOMAIN caches : collectClick(c)
Deposit == \E c \in DOMAIN caches : \E text \in DepositTexts : depositClick(c, text)
Collect_002 == \E c \in DOMAIN caches : collectClick_002(c)
Deposit_002 == \E c \in DOMAIN caches : \E text \in DepositTexts : depositClick_002(c, text)
Arrow == \E d \in Arrows : arrowClick(d)
Geolocation == enableGeolocation
PositionFix == \E k \in 1..MaxFix : positionFix(k)
Orientation == \E beta \in Tilts : \E gamma \in Tilts : deviceorientation(beta, gamma)
Reset == \E confirmation \in Answers : resetGameState(confirmation)

Next ==
    \/ Collect
    \/ Deposit
    \/ Collect_002
    \/ Deposit_002
    \/ Arrow
    \/ Geolocation
    \/ PositionFix
    \/ Orientation
    \/ Reset

Spec == Init /\ [][Next]_vars

-----------------------------------------------------------------------------
(* Quantities the properties speak of *)

\* the number of coins cache c holds
CoinCount(c) == IF HasCoinList(rev) THEN Len(CoinsOf(c)) ELSE cacheCoins[c]

RECURSIVE CoinsInCaches(_)
CoinsInCaches(c) == IF c = 0 THEN 0 ELSE CoinCount(c) + CoinsInCaches(c - 1)

\* the player's balance plus the coins of all caches
Total == playerCoins + CoinsInCaches(Len(caches))

RECURSIVE SpawnedIn(_, _)
SpawnedIn(w, c) ==
    IF c = 0 THEN 0
    ELSE (IF HasCoinList(rev) THEN Len(w.heap[w.coins[c]]) ELSE w.coins[c])
            + SpawnedIn(w, c - 1)

\* the same total right after initialisation
InitialTotal ==
    LET w == initializeGame(rev, seed) IN SpawnedIn(w, Len(w.caches))

\* the coin list cache c was spawned with
SpawnCoins(c) ==
    LET w == initializeGame(rev, seed) IN w.heap[w.coins[c]]

\* the parts of the state that hold coins
CoinState == <<playerCoins, cacheCoins, heap, cacheMementos, currentCacheState>>

KeyOf(c) == key(caches[c].i, caches[c].j)

\* the loop position (i, j) of generateCacheLocations at which cache c was
\* spawned: lat = OAKES_CLASSROOM.lat + i * TILE_DEGREES, and so for lng
LoopPosition(c) ==
    <<(caches[c].lat - OAKES_CLASSROOM.lat) \div TILE_DEGREES,
      (caches[c].lng - OAKES_CLASSROOM.lng) \div TILE_DEGREES>>

ResetDone_005 == <<"Game state has been reset.">>
ResetDone_000 ==
    <<"Game state has been reset. All coins have been returned to their original caches.">>

-----------------------------------------------------------------------------
(* Properties *)

\* C1: every Collect and every Deposit click, accepted or rejected, on a coin
\* list or on a coin count, leaves the player's balance plus the coins of all
\* caches as it was; the total starts as the total spawned.
C1_CoinsConserved ==
    /\ Total = InitialTotal
    /\ [][(Collect \/ Deposit \/ Collect_002 \/ Deposit_002) => Total' = Total]_vars

\* a deposit has been accepted after a collect, in part_005
C1_Witness ==
    /\ rev = "part_005"
    /\ alert # <<>> /\ alert[1] = "Deposited "
    /\ playerCoins > 0

\* C2: in part_005 and part_006, right after a confirmed reset the balance is
\* 0 and every cache holds the coin list it was spawned with.
C2_ResetRestoresOriginal ==
    (HasCurrentState(rev) /\ alert = ResetDone_005)
        => /\ playerCoins = 0
           /\ \A c \in DOMAIN caches : CoinsOf(c) = SpawnCoins(c)

\* a confirmed reset has just run in part_006
C2_Witness == rev = "part_006" /\ alert = ResetDone_005

\* C3: in part_000, right after a confirmed reset the balance is 0 and every
\* cache holds the coin list it was spawned with.
C3_ResetRestoresOriginal_000 ==
    (rev = "part_000" /\ alert = ResetDone_000)
        => /\ playerCoins = 0
           /\ \A c \in DOMAIN caches : CoinsOf(c) = SpawnCoins(c)

\* C4: in part_005 and part_006 cacheMementos has one entry per cache and the
\* entry always holds the coin list the cache was spawned with.
C4_MementoFixed ==
    HasCurrentState(rev)
        => /\ DOMAIN cacheMementos = {KeyOf(c) : c \in DOMAIN caches}
           /\ \A c \in DOMAIN caches : heap[cacheMementos[KeyOf(c)]] = SpawnCoins(c)

\* a deposit has grown a cache beyond the list it was spawned with
C4_Witness ==
    /\ rev = "part_005"
    /\ \E c \in DOMAIN caches : Len(CoinsOf(c)) > Len(SpawnCoins(c))

\* C5: every coin of a cache carries the cache's own cell and the serials of
\* a list are 0, 1, ..., n-1 in order; no two coins of the game have the same
\* identifier.
C5_CoinIdsUnique ==
    HasCoinList(rev)
        => /\ \A c \in DOMAIN caches : \A k \in DOMAIN CoinsOf(c) :
                 CoinsOf(c)[k] = [i |-> caches[c].i, j |-> caches[c].j, serial |-> k - 1]
           /\ \A c, d \in DOMAIN caches :
                 \A k \in DOMAIN CoinsOf(c) : \A m \in DOMAIN CoinsOf(d) :
                    formatCoinID(CoinsOf(c)[k]) = formatCoinID(CoinsOf(d)[m])
                        => (c = d /\ k = m)

\* coins were deposited into a cache that was not empty
C5_Witness ==
    /\ rev = "part_005"
    /\ alert # <<>> /\ alert[1] = "Deposited "
    /\ \E c \in DOMAIN caches : Len(CoinsOf(c)) > Len(SpawnCoins(c)) + 1

\* C6: the balance is never negative, and subtractCoins leaves the balance
\* alone when asked for more than it holds.
C6_BalanceNonNegative ==
    /\ playerCoins \in Nat
    /\ \A amount \in (playerCoins + 1)..(playerCoins + MaxDeposit) :
          /\ subtractCoins(playerCoins, amount).threw
          /\ subtractCoins(playerCoins, amount).coins = playerCoins

\* a deposit has just been refused by subtractCoins while the player held coins
C6_Witness == rev = "part_005" /\ alert = <<"error">> /\ playerCoins > 0

\* C7: a Deposit click with a positive amount above the balance changes
\* neither the balance nor any coin list nor the saved state.
C7_OverdraftRejected ==
    [][\A c \in DOMAIN caches : \A n \in 1..MaxDeposit :
          (n > playerCoins /\ (depositClick(c, AmountText(n)) \/ depositClick_002(c, AmountText(n))))
              => UNCHANGED CoinState]_vars

\* the inline guard has just refused a deposit while the player held coins
C7_Witness ==
    /\ alert = <<"You don't have enough coins to deposit that amount.">>
    /\ playerCoins > 0

\* C8: a Deposit click with an empty, zero or negative amount changes neither
\* the balance nor any coin list nor the saved state.
C8_InvalidAmountRejected ==
    [][\A c \in DOMAIN caches : \A text \in InvalidTexts :
          (depositClick(c, text) \/ depositClick_002(c, text))
              => UNCHANGED CoinState]_vars

\* an invalid amount has just been refused while the player held coins
C8_Witness ==
    /\ alert = <<"Please enter a valid number of coins to deposit.">>
    /\ playerCoins > 0

\* C9: a Collect click on a cache without coins shows "No coins left in this
\* cache." and changes neither the balance nor any coin list nor the saved
\* state.
C9_EmptyCollectRejected ==
    [][\A c \in DOMAIN caches :
          ((collectClick(c) \/ collectClick_002(c)) /\ CoinCount(c) = 0)
              => /\ alert' = <<"No coins left in this cache.">>
                 /\ UNCHANGED CoinState]_vars

\* Collect has just been refused on an empty cache
C9_Witness ==
    /\ alert = <<"No coins left in this cache.">>
    /\ \E c \in onMap : CoinCount(c) = 0

\* C10: a position fix sets the position to the fix, a movement adds its step
\* to the position, and after every handler the marker is at the player's
\* position.
C10_HandlersSequential ==
    [][/\ \A k \in 1..MaxFix : positionFix(k) => playerPosition' = Fix(k)
       /\ \A d \in Arrows : arrowClick(d) =>
             playerPosition' = [lat |-> playerPosition.lat + d[1],
                                lng |-> playerPosition.lng + d[2]]
       /\ \A beta, gamma \in Tilts : deviceorientation(beta, gamma) =>
             playerPosition' = IF beta # 0 /\ gamma # 0
                               THEN [lat |-> playerPosition.lat + Step(beta),
                                     lng |-> playerPosition.lng + Step(gamma)]
                               ELSE playerPosition
       /\ playerMarker' = playerPosition']_vars

C12_SpawnKeyIsCell ==
    LET w == initializeGame(rev, seed)
        first(c) == IF HasCoinList(rev) THEN Len(w.heap[w.coins[c]]) ELSE w.coins[c]
    IN  \A c \in DOMAIN caches :
           /\ spawnKey(LoopPosition(c)[1], LoopPosition(c)[2]) = <<caches[c].i, caches[c].j>>
           /\ first(c) =
                 ((luck(seed, <<caches[c].i, caches[c].j, "initialValue">>) * 100) \div 1000) + 1

\* the coordinates tried on latLngToGridCoords: the cell borders within
\* MaxGrid cells of 0, the middles of the cells and the units next to both
GridInputs ==
    {k * (TILE_DEGREES \div 2) + e : k \in (-2 * MaxGrid)..(2 * MaxGrid), e \in {-1, 0, 1}}

\* the cell index n holds coordinate x: n <= x * 10000 < n + 1
IsFloor(n, x) == n * 100 <= x /\ x < (n + 1) * 100

\* C13 as stated: the cell of every cache is its corner's latitude * 10000
\* and longitude * 10000 truncated to integers.
C13_GridTruncates ==
    rev # "part_002" =>
        \A c \in DOMAIN caches :
            /\ caches[c].i = Trunc(caches[c].lat)
            /\ caches[c].j = Trunc(caches[c].lng)

\* C13, amended: latLngToGridCoords takes the floor of latitude * 10000 and
\* of longitude * 10000, for the corner of every cache and for positive,
\* zero and negative coordinates alike; a negative coordinate that is not a
\* cell border lies one cell below its truncation.
C13_GridFloors ==
    /\ rev # "part_002" =>
          \A c \in DOMAIN caches :
              /\ IsFloor(caches[c].i, caches[c].lat)
              /\ IsFloor(caches[c].j, caches[c].lng)
    /\ \A x \in GridInputs :
          /\ IsFloor(latLngToGridCoords(x, x).i, x)
          /\ IsFloor(latLngToGridCoords(x, x).j, x)
          /\ (x < 0 /\ x % 100 # 0) => latLngToGridCoords(x, x).j = Trunc(x) - 1

\* a cache stands at a negative longitude whose floor is not its truncation
C13_Witness ==
    /\ rev # "part_002"
    /\ \E c \in DOMAIN caches :
          /\ caches[c].lng < 0
          /\ caches[c].j = latLngToGridCoords(caches[c].lat, caches[c].lng).j
          /\ caches[c].j # Trunc(caches[c].lng)

\* `collect-button-${i}-${j}`: the element id of a cache's Collect button
collectButtonId(cache) == <<"collect-button-", cache.i, "-", cache.j>>

\* C14: no two caches have the same cell (i, j); the saved-state maps hold
\* one key per cache and no two caches share a popup element id.
C14_OneCachePerCell ==
    /\ \A c, d \in DOMAIN caches :
          (caches[c].i = caches[d].i /\ caches[c].j = caches[d].j) => c = d
    /\ \A c, d \in DOMAIN caches :
          collectButtonId(caches[c]) = collectButtonId(caches[d]) => c = d
    /\ HasSavedState(rev) =>
          /\ DOMAIN cacheMementos = {KeyOf(c) : c \in DOMAIN caches}
          /\ Cardinality(DOMAIN cacheMementos) = Len(caches)
    /\ HasCurrentState(rev) =>
          /\ DOMAIN currentCacheState = {KeyOf(c) : c \in DOMAIN caches}
          /\ Cardinality(DOMAIN currentCacheState) = Len(caches)

\* two caches exist and coins have moved through the saved state of one
C14_Witness ==
    /\ rev = "part_005"
    /\ Len(caches) >= 2
    /\ playerCoins > 0
    /\ \E c \in DOMAIN caches : heap[currentCacheState[KeyOf(c)]] # SpawnCoins(c)

\* the coin list saved for the cell of cache c by saveCacheState
SavedCoins(c) ==
    IF HasCurrentState(rev) THEN heap[currentCacheState[KeyOf(c)]]
    ELSE heap[cacheMementos[KeyOf(c)]]

\* C15: a Collect click on a cache holding n > 0 coins adds n to the
\* balance, empties the cache's list and the list saved for its cell, and
\* leaves every other cache, every other saved list, the player's position
\* and the movement history as they were.
C15_CollectTakesAll ==
    [][\A c \in DOMAIN caches :
          (collectClick(c) /\ Len(CoinsOf(c)) > 0)
              => /\ playerCoins' = playerCoins + Len(CoinsOf(c))
                 /\ CoinsOf(c)' = <<>>
                 /\ HasSavedState(rev) => SavedCoins(c)' = <<>>
                 /\ \A d \in DOMAIN caches \ {c} :
                       /\ CoinsOf(d)' = CoinsOf(d)
                       /\ HasSavedState(rev) => SavedCoins(d)' = SavedCoins(d)
                 /\ UNCHANGED <<playerPosition, movementHistory, caches>>]_vars

\* the player has moved and has just collected a cache of several coins
\* while another cache still holds its coins
C15_Witness ==
    /\ rev = "part_006"
    /\ alert # <<>> /\ alert[1] = "Collected! You now have "
    /\ playerCoins >= 2
    /\ movementHistory # <<>>
    /\ \E d \in DOMAIN caches : Len(CoinsOf(d)) > 0

\* C16: an accepted deposit of d coins (1 <= d <= balance) into a cache of m
\* coins lowers the balance by d, keeps the first m coins of the cache and
\* appends d coins of the cache's cell with serials m, ..., m + d - 1 in
\* that order; every other cache is unchanged.
C16_DepositAppends ==
    [][\A c \in DOMAIN caches : \A d \in 1..MaxDeposit :
          (depositClick(c, AmountText(d)) /\ d <= playerCoins)
              => LET m == Len(CoinsOf(c))
                 IN  /\ playerCoins' = playerCoins - d
                     /\ Len(CoinsOf(c)') = m + d
                     /\ \A k \in 1..m : CoinsOf(c)'[k] = CoinsOf(c)[k]
                     /\ \A k \in 1..d :
                           CoinsOf(c)'[m + k] =
                               [i |-> caches[c].i, j |-> caches[c].j, serial |-> m + k - 1]
                     /\ \A e \in DOMAIN caches \ {c} : CoinsOf(e)' = CoinsOf(e)]_vars

\* several coins have just been deposited into a cache that held some, in
\* main.ts, where there is another cache
C16_Witness ==
    /\ rev = "main"
    /\ alert # <<>> /\ alert[1] = "Deposited " /\ alert[2] >= 2
    /\ \E c \in DOMAIN caches : Len(CoinsOf(c)) > alert[2]
    /\ Len(caches) >= 2

\* the values luck can take: [0, 1) in thousandths
LuckValues == 0..999

\* Math.floor(l * 100) + 1 lies in 1..100 for every luck value, and both
\* ends are taken
CoinCountInRange ==
    /\ \A l \in LuckValues : coinCount(l) \in 1..100
    /\ coinCount(0) = 1
    /\ coinCount(999) = 100

\* C17: every cache is spawned with between 1 and 100 coins, numbered
\* 0..n-1; no cache is spawned empty.
C17_SpawnCount ==
    LET w == initializeGame(rev, seed)
    IN  /\ CoinCountInRange
        /\ \A c \in DOMAIN w.caches :
              IF HasCoinList(rev)
              THEN LET list == w.heap[w.coins[c]]
                   IN  /\ Len(list) \in 1..100
                       /\ \A k \in DOMAIN list : list[k].serial = k - 1
              ELSE w.coins[c] \in 1..100
        /\ HasCurrentState(rev) =>
              \A c \in DOMAIN caches :
                  Len(heap[cacheMementos[KeyOf(c)]]) \in 1..100

\* one cache was spawned with one coin and another with several
C17_Witness ==
    /\ rev = "part_005"
    /\ \E c, d \in DOMAIN caches :
          /\ Len(heap[cacheMementos[KeyOf(c)]]) = 1
          /\ Len(heap[cacheMementos[KeyOf(d)]]) > 1

\* the revisions in which only moves and position fixes change the position
MovesOnly(r) == r \in {"part_003", "main", "part_000", "part_006"}

\* C18: where only moves and position fixes change the position, a cache's
\* rectangle is on the map exactly when the cache's centre is within
\* PLAYER_RADIUS * 111000 of the player's position; updateCacheLayers yields
\* a set of layers of caches, and a second call right after the first
\* changes nothing, whatever layers were on the map before.
C18_LayersFollowRange ==
    /\ MovesOnly(rev) =>
          onMap = {c \in DOMAIN caches : InRange(playerPosition, caches[c])}
    /\ \A om \in SUBSET DOMAIN caches :
          LET once == updateCacheLayers(playerPosition, caches, om)
          IN  /\ once \subseteq DOMAIN caches
              /\ updateCacheLayers(playerPosition, caches, once) = once

\* in part_003 the player has moved to where one cache is shown and another
\* is not
C18_Witness ==
    /\ rev = "part_003"
    /\ playerPosition # OAKES_CLASSROOM
    /\ onMap # {}
    /\ onMap # DOMAIN caches

\* C19: in part_005, right after a confirmed reset the player's position is
\* the classroom, the marker is at that position and a cache's rectangle is
\* on the map exactly when the cache is within range of that position.
C19_ResetConsistent ==
    (rev = "part_005" /\ alert = ResetDone_005)
        => /\ playerPosition = OAKES_CLASSROOM
           /\ playerMarker = playerPosition
           /\ onMap = {c \in DOMAIN caches : InRange(playerPosition, caches[c])}

\* C20: a reset whose prompt is cancelled or answered with anything but
\* "yes" changes neither the balance, the position, any coin list, the saved
\* cache state nor the movement history.
C20_UnconfirmedResetNoChange ==
    [][\A answer \in Answers \ {"yes"} :
          resetGameState(answer)
              => UNCHANGED <<playerCoins, playerPosition, playerMarker, caches,
                             cacheCoins, heap, cacheMementos, currentCacheState,
                             movementHistory, onMap>>]_vars

\* in part_000 the player has moved once, collected a cache that cannot be
\* reached from the classroom and then declined a reset: no message is
\* left, the balance, the empty cache and the polyline are as they were
C20_Witness ==
    /\ rev = "part_000"
    /\ ~geoWatch
    /\ alert = <<>>
    /\ playerCoins > 0
    /\ Len(movementHistory) = 1
    /\ \E c \in DOMAIN caches :
          ~InRange(OAKES_CLASSROOM, caches[c]) /\ CoinCount(c) = 0
    /\ \A c \in DOMAIN caches :
          InRange(OAKES_CLASSROOM, caches[c]) => CoinCount(c) > 0

\* the button that undoes button d
Opposite(d) ==
    IF d = buttonUp THEN buttonDown
    ELSE IF d = buttonDown THEN buttonUp
    ELSE IF d = buttonLeft THEN buttonRight
    ELSE buttonLeft

\* a position measured in whole tiles
TileOf(pos) == latLngToGridCoords(pos.lat, pos.lng)

\* the position after clicking button d at pos
Clicked(pos, d) == newPosition(pos, d[1], d[2])

\* the tile displacement of one click of d: the step of button d in tiles
TileStep(d) == [i |-> d[1] \div TILE_DEGREES, j |-> d[2] \div TILE_DEGREES]

\* C21: an arrow click moves the player one tile along one axis (up +lat,
\* down -lat, left -lng, right +lng) and leaves the other axis, the balance
\* and every coin list unchanged; in whole tiles a click followed by the
\* opposite click ends where it began, and clicks along different axes
\* commute.
C21_ArrowMoves ==
    /\ TileStep(buttonUp) = [i |-> 1, j |-> 0]
    /\ TileStep(buttonDown) = [i |-> -1, j |-> 0]
    /\ TileStep(buttonLeft) = [i |-> 0, j |-> -1]
    /\ TileStep(buttonRight) = [i |-> 0, j |-> 1]
    /\ [][/\ \A d \in Arrows :
               TileOf(Clicked(Clicked(playerPosition, d), Opposite(d))) = TileOf(playerPosition)
          /\ \A d \in {buttonUp, buttonDown} : \A e \in {buttonLeft, buttonRight} :
               TileOf(Clicked(Clicked(playerPosition, d), e))
                   = TileOf(Clicked(Clicked(playerPosition, e), d))
          /\ \A d \in Arrows :
               arrowClick(d) =>
                  /\ playerPosition' = Clicked(playerPosition, d)
                  /\ TileOf(playerPosition').i = TileOf(playerPosition).i + TileStep(d).i
                  /\ TileOf(playerPosition').j = TileOf(playerPosition).j + TileStep(d).j
                  /\ d \in {buttonUp, buttonDown} => playerPosition'.lng = playerPosition.lng
                  /\ d \in {buttonLeft, buttonRight} => playerPosition'.lat = playerPosition.lat
                  /\ UNCHANGED <<playerCoins, caches, cacheCoins, heap>>]_vars

\* in main.ts the player stands at the classroom again holding the coins of
\* a cache that is out of reach from there: a click and its opposite ran
C21_Witness ==
    /\ rev = "main"
    /\ ~geoWatch
    /\ playerPosition = OAKES_CLASSROOM
    /\ playerCoins > 0
    /\ \E c \in DOMAIN caches :
          ~InRange(OAKES_CLASSROOM, caches[c]) /\ CoinCount(c) = 0

=============================================================================
